---- MODULE Spec2Model ----
(***************************************************************************)
(* Model of the doculint analyzer (internal/doculint/doculint.go).         *)
(*                                                                         *)
(* Go strings are sequences of Unicode code points.  A formatted          *)
(* message is the pair of its format string and its arguments.  A source  *)
(* position is the pair of the file it lies in and the path of the node   *)
(* inside that file; token.NoPos (0) is NoPos.                             *)
(***************************************************************************)
EXTENDS Integers, Sequences, FiniteSets, TLC

VARIABLES
    pkgName,                  \* pass.Pkg.Name()
    files,                    \* pass.Files
    packageWithSameNameFile,  \* the map of doculint(), line 26
    msg,                      \* result of validatePackageName, line 28
    idx,                      \* index of the next file of the range loop, line 32
    diags,                    \* diagnostics handed to pass.Reportf, in order
    pc                        \* position inside doculint()

vars == <<pkgName, files, packageWithSameNameFile, msg, idx, diags, pc>>

----------------------------------------------------------------------------
(* Bounds of the checked inputs.                                           *)

MaxFiles == 2      \* files of one compilation unit
MaxDocLen == 3     \* characters of a function doc comment
MaxIdentLen == 3   \* characters of an identifier given to validatePackageName
MaxNames == 2      \* names declared by one constant specification
MaxSpecs == 2      \* specifications of one declaration block

----------------------------------------------------------------------------
(* Strings.                                                                *)

\* A character is its Unicode code point.
\* The upper-case and title-case letters that unicode.ToLower changes, as
\* ranges <<first, last, stride, delta>>: every stride-th code point from
\* first to last has its lower-case letter delta further.
CaseRanges ==
    <<
      <<65, 90, 1, 32>>, <<192, 214, 1, 32>>, <<216, 222, 1, 32>>, <<256, 302, 2, 1>>,
      <<304, 304, 1, -199>>, <<306, 310, 2, 1>>, <<313, 327, 2, 1>>, <<330, 374, 2, 1>>,
      <<376, 376, 1, -121>>, <<377, 381, 2, 1>>, <<385, 385, 1, 210>>, <<386, 388, 2, 1>>,
      <<390, 390, 1, 206>>, <<391, 391, 1, 1>>, <<393, 394, 1, 205>>, <<395, 395, 1, 1>>,
      <<398, 398, 1, 79>>, <<399, 399, 1, 202>>, <<400, 400, 1, 203>>, <<401, 401, 1, 1>>,
      <<403, 403, 1, 205>>, <<404, 404, 1, 207>>, <<406, 406, 1, 211>>, <<407, 407, 1, 209>>,
      <<408, 408, 1, 1>>, <<412, 412, 1, 211>>, <<413, 413, 1, 213>>, <<415, 415, 1, 214>>,
      <<416, 420, 2, 1>>, <<422, 422, 1, 218>>, <<423, 423, 1, 1>>, <<425, 425, 1, 218>>,
      <<428, 428, 1, 1>>, <<430, 430, 1, 218>>, <<431, 431, 1, 1>>, <<433, 434, 1, 217>>,
      <<435, 437, 2, 1>>, <<439, 439, 1, 219>>, <<440, 440, 1, 1>>, <<444, 444, 1, 1>>,
      <<452, 452, 1, 2>>, <<453, 453, 1, 1>>, <<455, 455, 1, 2>>, <<456, 456, 1, 1>>,
      <<458, 458, 1, 2>>, <<459, 475, 2, 1>>, <<478, 494, 2, 1>>, <<497, 497, 1, 2>>,
      <<498, 500, 2, 1>>, <<502, 502, 1, -97>>, <<503, 503, 1, -56>>, <<504, 542, 2, 1>>,
      <<544, 544, 1, -130>>, <<546, 562, 2, 1>>, <<570, 570, 1, 10795>>, <<571, 571, 1, 1>>,
      <<573, 573, 1, -163>>, <<574, 574, 1, 10792>>, <<577, 577, 1, 1>>, <<579, 579, 1, -195>>,
      <<580, 580, 1, 69>>, <<581, 581, 1, 71>>, <<582, 590, 2, 1>>, <<880, 882, 2, 1>>,
      <<886, 886, 1, 1>>, <<895, 895, 1, 116>>, <<902, 902, 1, 38>>, <<904, 906, 1, 37>>,
      <<908, 908, 1, 64>>, <<910, 911, 1, 63>>, <<913, 929, 1, 32>>, <<931, 939, 1, 32>>,
      <<975, 975, 1, 8>>, <<984, 1006, 2, 1>>, <<1012, 1012, 1, -60>>, <<1015, 1015, 1, 1>>,
      <<1017, 1017, 1, -7>>, <<1018, 1018, 1, 1>>, <<1021, 1023, 1, -130>>, <<1024, 1039, 1, 80>>,
      <<1040, 1071, 1, 32>>, <<1120, 1152, 2, 1>>, <<1162, 1214, 2, 1>>, <<1216, 1216, 1, 15>>,
      <<1217, 1229, 2, 1>>, <<1232, 1326, 2, 1>>, <<1329, 1366, 1, 48>>, <<4256, 4293, 1, 7264>>,
      <<4295, 4295, 1, 7264>>, <<4301, 4301, 1, 7264>>, <<5024, 5103, 1, 38864>>, <<5104, 5109, 1, 8>>,
      <<7312, 7354, 1, -3008>>, <<7357, 7359, 1, -3008>>, <<7680, 7828, 2, 1>>, <<7838, 7838, 1, -7615>>,
      <<7840, 7934, 2, 1>>, <<7944, 7951, 1, -8>>, <<7960, 7965, 1, -8>>, <<7976, 7983, 1, -8>>,
      <<7992, 7999, 1, -8>>, <<8008, 8013, 1, -8>>, <<8025, 8031, 2, -8>>, <<8040, 8047, 1, -8>>,
      <<8072, 8079, 1, -8>>, <<8088, 8095, 1, -8>>, <<8104, 8111, 1, -8>>, <<8120, 8121, 1, -8>>,
      <<8122, 8123, 1, -74>>, <<8124, 8124, 1, -9>>, <<8136, 8139, 1, -86>>, <<8140, 8140, 1, -9>>,
      <<8152, 8153, 1, -8>>, <<8154, 8155, 1, -100>>, <<8168, 8169, 1, -8>>, <<8170, 8171, 1, -112>>,
      <<8172, 8172, 1, -7>>, <<8184, 8185, 1, -128>>, <<8186, 8187, 1, -126>>, <<8188, 8188, 1, -9>>,
      <<8486, 8486, 1, -7517>>, <<8490, 8490, 1, -8383>>, <<8491, 8491, 1, -8262>>, <<8498, 8498, 1, 28>>,
      <<8544, 8559, 1, 16>>, <<8579, 8579, 1, 1>>, <<9398, 9423, 1, 26>>, <<11264, 11311, 1, 48>>,
      <<11360, 11360, 1, 1>>, <<11362, 11362, 1, -10743>>, <<11363, 11363, 1, -3814>>, <<11364, 11364, 1, -10727>>,
      <<11367, 11371, 2, 1>>, <<11373, 11373, 1, -10780>>, <<11374, 11374, 1, -10749>>, <<11375, 11375, 1, -10783>>,
      <<11376, 11376, 1, -10782>>, <<11378, 11378, 1, 1>>, <<11381, 11381, 1, 1>>, <<11390, 11391, 1, -10815>>,
      <<11392, 11490, 2, 1>>, <<11499, 11501, 2, 1>>, <<11506, 11506, 1, 1>>, <<42560, 42604, 2, 1>>,
      <<42624, 42650, 2, 1>>, <<42786, 42798, 2, 1>>, <<42802, 42862, 2, 1>>, <<42873, 42875, 2, 1>>,
      <<42877, 42877, 1, -35332>>, <<42878, 42886, 2, 1>>, <<42891, 42891, 1, 1>>, <<42893, 42893, 1, -42280>>,
      <<42896, 42898, 2, 1>>, <<42902, 42920, 2, 1>>, <<42922, 42922, 1, -42308>>, <<42923, 42923, 1, -42319>>,
      <<42924, 42924, 1, -42315>>, <<42925, 42925, 1, -42305>>, <<42926, 42926, 1, -42308>>, <<42928, 42928, 1, -42258>>,
      <<42929, 42929, 1, -42282>>, <<42930, 42930, 1, -42261>>, <<42931, 42931, 1, 928>>, <<42932, 42946, 2, 1>>,
      <<42948, 42948, 1, -48>>, <<42949, 42949, 1, -42307>>, <<42950, 42950, 1, -35384>>, <<42951, 42953, 2, 1>>,
      <<42960, 42960, 1, 1>>, <<42966, 42968, 2, 1>>, <<42997, 42997, 1, 1>>, <<65313, 65338, 1, 32>>,
      <<66560, 66599, 1, 40>>, <<66736, 66771, 1, 40>>, <<66928, 66938, 1, 39>>, <<66940, 66954, 1, 39>>,
      <<66956, 66962, 1, 39>>, <<66964, 66965, 1, 39>>, <<68736, 68786, 1, 64>>, <<71840, 71871, 1, 32>>,
      <<93760, 93791, 1, 32>>, <<125184, 125217, 1, 34>>
    >>

\* unicode.ToLower on one character
ToLowerChar(c) ==
    LET Hits == { k \in 1..Len(CaseRanges) :
                    /\ CaseRanges[k][1] <= c
                    /\ c <= CaseRanges[k][2]
                    /\ (c - CaseRanges[k][1]) % CaseRanges[k][3] = 0 }
    IN  IF Hits = {} THEN c
        ELSE c + CaseRanges[CHOOSE k \in Hits : TRUE][4]

\* strings.ToLower
ToLower(s) == [k \in 1..Len(s) |-> ToLowerChar(s[k])]

\* strings.ContainsAny(s, chars)
ContainsAny(s, chars) ==
    \E k \in 1..Len(s) : \E j \in 1..Len(chars) : s[k] = chars[j]

\* strings.HasPrefix
HasPrefix(s, prefix) ==
    /\ Len(s) >= Len(prefix)
    /\ SubSeq(s, 1, Len(prefix)) = prefix

\* unicode.IsSpace: \t \n \v \f \r, space, U+0085, U+00A0, U+1680,
\* U+2000..U+200A, U+2028, U+2029, U+202F, U+205F, U+3000
IsSpace(c) ==
    c \in (9..13) \cup {32, 133, 160, 5760} \cup (8192..8202)
           \cup {8232, 8233, 8239, 8287, 12288}

RECURSIVE TrimLeft(_)
TrimLeft(s) ==
    IF s # <<>> /\ IsSpace(Head(s)) THEN TrimLeft(Tail(s)) ELSE s

RECURSIVE TrimRight(_)
TrimRight(s) ==
    IF s # <<>> /\ IsSpace(s[Len(s)])
    THEN TrimRight(SubSeq(s, 1, Len(s) - 1))
    ELSE s

\* strings.TrimSpace
TrimSpace(s) == TrimRight(TrimLeft(s))

\* strings.Join
RECURSIVE Join(_, _)
Join(elems, sep) ==
    IF elems = <<>> THEN <<>>
    ELSE IF Len(elems) = 1 THEN elems[1]
    ELSE elems[1] \o sep \o Join(Tail(elems), sep)

\* fmt.Sprintf: the format and its arguments
Sprintf(format, args) == [fmt |-> format, args |-> args]

\* fmt.Sprintf("Package %s", pkg), used as a string
SprintfPackage(pkg) == <<80, 97, 99, 107, 97, 103, 101, 32>> \o pkg

\* the empty string returned by validatePackageName
NoMsg == [fmt |-> "", args |-> <<>>]

MainName == <<109, 97, 105, 110>>       \* "main"
InitName == <<105, 110, 105, 116>>      \* "init"

----------------------------------------------------------------------------
(* Syntax trees (go/ast).                                                  *)

NilDoc == [nil |-> TRUE, text |-> <<>>]          \* Doc == nil
Doc(t) == [nil |-> FALSE, text |-> t]            \* a *ast.CommentGroup
Text(doc) == doc.text                            \* CommentGroup.Text()

File(name, fname, doc, decls) ==
    [Name |-> name,      \* ast.File.Name.Name: the identifier of the package clause
     fname |-> fname,    \* simple name of the file on disk, without ".go"
     Doc |-> doc, Decls |-> decls]

FuncDecl(name, doc, body) ==
    [type |-> "FuncDecl", Name |-> name, Doc |-> doc, Body |-> body]
\* Body holds the statements below the if statement, of both branches
IfStmt(cond, body) == [type |-> "IfStmt", Cond |-> cond, Body |-> body]
GenDecl(tok, lparen, doc, specs) ==
    [type |-> "GenDecl", Tok |-> tok, Lparen |-> lparen, Doc |-> doc, Specs |-> specs]
ValueSpec(names, doc) == [type |-> "ValueSpec", Names |-> names, Doc |-> doc]
TypeSpec(name, doc) == [type |-> "TypeSpec", Name |-> name, Doc |-> doc]
ExprStmt == [type |-> "ExprStmt"]

BasicLit(kind) == [type |-> "BasicLit", Kind |-> kind]
Ident == [type |-> "Ident"]
CallExpr == [type |-> "CallExpr"]
ParenExpr(x) == [type |-> "ParenExpr", X |-> x]
UnaryExpr(x) == [type |-> "UnaryExpr", X |-> x]
BinaryExpr(x, y) == [type |-> "BinaryExpr", X |-> x, Y |-> y]

NoPos == [file |-> <<>>, path |-> <<>>]          \* token.NoPos
Pos(f, path) == [file |-> f, path |-> path]

\* one call of pass.Reportf
Diag(pos, m) == [pos |-> pos, msg |-> m]

----------------------------------------------------------------------------
(* validatePackageName, lines 178-188.                                     *)

validatePackageName_casingFirst(pkg) ==
    IF pkg # ToLower(pkg)
    THEN Sprintf("package \"%s\" should be all lowercase", <<pkg>>)
    ELSE IF ContainsAny(pkg, <<95, 45>>)
    THEN Sprintf("package \"%s\" should not contain - or _ in name", <<pkg>>)
    ELSE NoMsg

validatePackageName(pkg) ==
    IF ContainsAny(pkg, <<95, 45>>)
    THEN Sprintf("package \"%s\" should not contain - or _ in name", <<pkg>>)
    ELSE IF pkg # ToLower(pkg)
    THEN Sprintf("package \"%s\" should be all lowercase", <<pkg>>)
    ELSE NoMsg

----------------------------------------------------------------------------
(* The package comment check of one file, lines 33-54.                     *)

EmptyMap == [k \in {} |-> FALSE]
MapSet(m, key, v) == [k \in (DOMAIN m) \cup {key} |-> IF k = key THEN v ELSE m[k]]

\* lines 45-52: the reports for a file named as the package
PackageCommentReports(file, pkg) ==
    IF file.Doc.nil
    THEN << Diag(NoPos, Sprintf("package \"%s\" has no comment associated with it in \"%s.go\"",
                                <<pkg, pkg>>)) >>
    ELSE LET expectedPrefix == SprintfPackage(pkg)
         IN  IF ~HasPrefix(TrimSpace(Text(file.Doc)), expectedPrefix)
             THEN << Diag(NoPos, Sprintf("comment for package \"%s\" should begin with \"%s\"",
                                         <<pkg, expectedPrefix>>)) >>
             ELSE << >>

PackageDocCheck_noMainGuard(file, pkg, m) ==
    LET m1 == IF pkg \notin DOMAIN m THEN MapSet(m, pkg, FALSE) ELSE m
    IN  IF file.Name = pkg
        THEN [m |-> MapSet(m1, pkg, TRUE), diags |-> PackageCommentReports(file, pkg)]
        ELSE [m |-> m1, diags |-> << >>]

PackageDocCheck_reportOnce(file, pkg, m) ==
    IF pkg # MainName
    THEN IF file.Name = pkg
         THEN [m |-> MapSet(m, pkg, TRUE),
               diags |-> IF pkg \in DOMAIN m /\ m[pkg]
                         THEN << >>
                         ELSE PackageCommentReports(file, pkg)]
         ELSE [m |-> IF pkg \notin DOMAIN m THEN MapSet(m, pkg, FALSE) ELSE m,
               diags |-> << >>]
    ELSE [m |-> m, diags |-> << >>]

PackageDocCheck(file, pkg, m) ==
    IF pkg # MainName
    THEN LET m1 == IF pkg \notin DOMAIN m THEN MapSet(m, pkg, FALSE) ELSE m
         IN  IF file.Name = pkg
             THEN [m |-> MapSet(m1, pkg, TRUE), diags |-> PackageCommentReports(file, pkg)]
             ELSE [m |-> m1, diags |-> << >>]
    ELSE [m |-> m, diags |-> << >>]

----------------------------------------------------------------------------
(* The rules of the tree walk, lines 56-164.                               *)

\* case *ast.FuncDecl, lines 58-77
FuncDeclRule_noTrim(pos, expr, pkg) ==
    IF pkg = MainName /\ expr.Name = MainName THEN << >>
    ELSE IF expr.Name = InitName THEN << >>
    ELSE IF expr.Doc.nil
    THEN << Diag(pos, Sprintf("function \"%s\" has no comment associated with it",
                              <<expr.Name>>)) >>
    ELSE IF ~HasPrefix(Text(expr.Doc), expr.Name)
    THEN << Diag(pos, Sprintf("comment for function \"%s\" should begin with \"%s\"",
                              <<expr.Name, expr.Name>>)) >>
    ELSE << >>

FuncDeclRule(pos, expr, pkg) ==
    IF pkg = MainName /\ expr.Name = MainName THEN << >>
    ELSE IF expr.Name = InitName THEN << >>
    ELSE IF expr.Doc.nil
    THEN << Diag(pos, Sprintf("function \"%s\" has no comment associated with it",
                              <<expr.Name>>)) >>
    ELSE IF ~HasPrefix(TrimSpace(Text(expr.Doc)), expr.Name)
    THEN << Diag(pos, Sprintf("comment for function \"%s\" should begin with \"%s\"",
                              <<expr.Name, expr.Name>>)) >>
    ELSE << >>

\* positions of the parts of an if statement at path
CondXPath(path) == path \o <<1, 1>>
CondYPath(path) == path \o <<1, 2>>
BodyPath(path) == path \o <<2>>

\* case *ast.IfStmt, lines 78-90
IfStmtRule_onlyY(f, path, expr) ==
    IF expr.Cond.type # "BinaryExpr" THEN << >>
    ELSE IF expr.Cond.Y.type = "BasicLit"
         THEN << Diag(Pos(f, CondYPath(path)), Sprintf("literal found in conditional", << >>)) >>
         ELSE << >>

IfStmtRule(f, path, expr) ==
    IF expr.Cond.type # "BinaryExpr" THEN << >>
    ELSE LET be == expr.Cond
         IN  (IF be.X.type = "BasicLit"
              THEN << Diag(Pos(f, CondXPath(path)), Sprintf("literal found in conditional", << >>)) >>
              ELSE << >>)
             \o
             (IF be.Y.type = "BasicLit"
              THEN << Diag(Pos(f, CondYPath(path)), Sprintf("literal found in conditional", << >>)) >>
              ELSE << >>)

\* one iteration of the loop over the specs of a constant declaration, lines 101-129
ValueSpecRule_noContinue(pos, vs, expr) ==
    LET name == vs.Names[1]
        doc == IF ~expr.Lparen THEN expr.Doc ELSE vs.Doc
    IN  (IF Len(vs.Names) > 1
         THEN << Diag(pos, Sprintf("constants \"%s\" should be separated and each have a comment associated with them",
                                   << Join(vs.Names, <<44, 32>>) >>)) >>
         ELSE << >>)
        \o
        (IF doc.nil
         THEN << Diag(pos, Sprintf("constant \"%s\" has no comment associated with it", <<name>>)) >>
         ELSE IF ~HasPrefix(TrimSpace(Text(doc)), name)
         THEN << Diag(pos, Sprintf("comment for constant \"%s\" should begin with \"%s\"",
                                   <<name, name>>)) >>
         ELSE << >>)

ValueSpecRule(pos, vs, expr) ==
    IF vs.type # "ValueSpec" THEN << >>
    ELSE IF Len(vs.Names) > 1
    THEN << Diag(pos, Sprintf("constants \"%s\" should be separated and each have a comment associated with them",
                              << Join(vs.Names, <<44, 32>>) >>)) >>
    ELSE LET name == vs.Names[1]
             doc == IF ~expr.Lparen THEN expr.Doc ELSE vs.Doc
         IN  IF doc.nil
             THEN << Diag(pos, Sprintf("constant \"%s\" has no comment associated with it", <<name>>)) >>
             ELSE IF ~HasPrefix(TrimSpace(Text(doc)), name)
             THEN << Diag(pos, Sprintf("comment for constant \"%s\" should begin with \"%s\"",
                                       <<name, name>>)) >>
             ELSE << >>

\* one iteration of the loop over the specs of a type declaration, lines 140-156
TypeSpecRule(pos, ts, expr) ==
    IF ts.type # "TypeSpec" THEN << >>
    ELSE LET doc == IF ~expr.Lparen THEN expr.Doc ELSE ts.Doc
         IN  IF doc.nil
             THEN << Diag(pos, Sprintf("type \"%s\" has no comment associated with it", <<ts.Name>>)) >>
             ELSE IF ~HasPrefix(TrimSpace(Text(doc)), ts.Name)
             THEN << Diag(pos, Sprintf("comment for type \"%s\" should begin with \"%s\"",
                                       <<ts.Name, ts.Name>>)) >>
             ELSE << >>

\* the loops "for i := range expr.Specs", lines 100 and 139, from spec i on
RECURSIVE SpecsLoop(_, _, _, _)
SpecsLoop(f, path, expr, i) ==
    IF i > Len(expr.Specs) THEN << >>
    ELSE (IF expr.Tok = "CONST"
          THEN ValueSpecRule(Pos(f, path \o <<i>>), expr.Specs[i], expr)
          ELSE TypeSpecRule(Pos(f, path \o <<i>>), expr.Specs[i], expr))
         \o SpecsLoop(f, path, expr, i + 1)

\* case *ast.GenDecl, lines 91-158
GenDeclRule(f, path, expr) ==
    IF expr.Tok = "CONST"
    THEN (IF expr.Lparen /\ expr.Doc.nil
          THEN << Diag(Pos(f, path), Sprintf("constant block has no comment associated with it", << >>)) >>
          ELSE << >>)
         \o SpecsLoop(f, path, expr, 1)
    ELSE IF expr.Tok = "TYPE"
    THEN (IF expr.Lparen /\ expr.Doc.nil
          THEN << Diag(Pos(f, path), Sprintf("type block has no comment associated with it", << >>)) >>
          ELSE << >>)
         \o SpecsLoop(f, path, expr, 1)
    ELSE << >>

\* ast.Inspect with the callback of lines 56-164 on node n and on the nodes
\* below it, depth first; the callback returns true on every path.
RECURSIVE Inspect(_, _, _, _)
RECURSIVE InspectList(_, _, _, _, _)
Inspect(f, path, n, pkg) ==
    CASE n.type = "FuncDecl" ->
            FuncDeclRule(Pos(f, path), n, pkg) \o InspectList(f, path, n.Body, 1, pkg)
      [] n.type = "IfStmt" ->
            IfStmtRule(f, path, n) \o InspectList(f, BodyPath(path), n.Body, 1, pkg)
      [] n.type = "GenDecl" -> GenDeclRule(f, path, n)
      [] OTHER -> << >>

InspectList(f, path, nodes, k, pkg) ==
    IF k > Len(nodes) THEN << >>
    ELSE Inspect(f, path \o <<k>>, nodes[k], pkg) \o InspectList(f, path, nodes, k + 1, pkg)

\* ast.Inspect(file, ...), line 56
InspectFile(file, pkg) == InspectList(file.fname, << >>, file.Decls, 1, pkg)

\* the reports of the loop over the map, lines 167-171; the map holds at most
\* the one key pass.Pkg.Name(), so the iteration order of the map is immaterial
RECURSIVE FinalReports(_, _)
FinalReports(m, keys) ==
    IF keys = {} THEN << >>
    ELSE LET pkg == CHOOSE k \in keys : TRUE
         IN  (IF ~m[pkg]
              THEN << Diag(NoPos, Sprintf("package \"%s\" has no file with the same name containing package comment",
                                          <<pkg>>)) >>
              ELSE << >>)
             \o FinalReports(m, keys \ {pkg})

----------------------------------------------------------------------------
(* doculint(), lines 22-174, as a process.                                 *)

\* lines 26-30
Start ==
    /\ pc = "start"
    /\ packageWithSameNameFile' = EmptyMap
    /\ msg' = validatePackageName(pkgName)
    /\ diags' = IF msg' # NoMsg THEN diags \o << Diag(NoPos, msg') >> ELSE diags
    /\ idx' = 1
    /\ pc' = "files"
    /\ UNCHANGED <<pkgName, files>>

\* one iteration of the loop over pass.Files, lines 32-165
VisitFile ==
    /\ pc = "files"
    /\ idx <= Len(files)
    /\ LET file == files[idx]
           r == PackageDocCheck(file, pkgName, packageWithSameNameFile)
       IN  /\ packageWithSameNameFile' = r.m
           /\ diags' = diags \o r.diags \o InspectFile(file, pkgName)
    /\ idx' = idx + 1
    /\ UNCHANGED <<pkgName, files, msg, pc>>

\* lines 167-173
Finalize ==
    /\ pc = "files"
    /\ idx > Len(files)
    /\ diags' = diags \o FinalReports(packageWithSameNameFile, DOMAIN packageWithSameNameFile)
    /\ pc' = "done"
    /\ UNCHANGED <<pkgName, files, packageWithSameNameFile, msg, idx>>

Next == Start \/ VisitFile \/ Finalize

----------------------------------------------------------------------------
(* Inputs.                                                                 *)

\* all strings of at most n characters of the alphabet
Strs(alphabet, n) == UNION { [1..k -> alphabet] : k \in 0..n }

\* the sequences of 1..n elements of S
SeqsUpTo(S, n) == UNION { [1..k -> S] : k \in 1..n }

MyPkg == <<112, 107>>                   \* "pk"

\* doculint() has just been entered
Entered ==
    /\ packageWithSameNameFile = EmptyMap
    /\ msg = NoMsg
    /\ idx = 1
    /\ diags = << >>
    /\ pc = "start"

\* A function with a comment whose body compares against a literal, and a
\* function without comment.
DocumentedFunc ==
    FuncDecl(<<70>>, Doc(<<70, 32, 120, 10>>),         \* F, "F x\n"
             << IfStmt(BinaryExpr(Ident, BasicLit("INT")), << >>) >>)
UndocumentedFunc == FuncDecl(<<71>>, NilDoc, << ExprStmt >>)    \* G

\* Compilation units.  The files of one unit lie in one directory, so their
\* simple names differ; they were type-checked into pass.Pkg, so the package
\* clause of each names the package.
\* "pk", "main", "Pk", "p_k" and, with a capital outside ASCII, "\u00C9a"
UnitPkgNames == { MyPkg, MainName, <<80, 107>>, <<112, 95, 107>>, <<201, 97>> }
UnitFileNames(pkg) == {pkg} \cup { <<102, 48 + k>> : k \in 1..MaxFiles }
UnitDocs(pkg) ==
    { NilDoc,
      Doc(<<160>> \o SprintfPackage(pkg) \o <<32, 120, 10>>),   \* after a no-break space
      Doc(<<68, 111, 99, 10>>) }                                \* "Doc\n"
UnitDecls == { << >>, <<DocumentedFunc>>, <<UndocumentedFunc>> }
UnitFiles(pkg) ==
    { File(pkg, fn, d, ds) : fn \in UnitFileNames(pkg), d \in UnitDocs(pkg), ds \in UnitDecls }
UnitFileSeqs(pkg) ==
    { s \in SeqsUpTo(UnitFiles(pkg), MaxFiles) :
        \A a, b \in DOMAIN s : a # b => s[a].fname # s[b].fname }

Init ==
    /\ pkgName \in UnitPkgNames
    /\ files \in UnitFileSeqs(pkgName)
    /\ Entered

Spec == Init /\ [][Next]_vars

\* Function declarations: every name with every doc comment.
FuncNames == { <<70>>, <<70, 111>>, InitName, MainName }     \* F, Fo
FuncDocs == {NilDoc} \cup { Doc(t) : t \in Strs({70, 111, 32, 11}, MaxDocLen) }
FuncBodies == { << >>, << IfStmt(BinaryExpr(BasicLit("INT"), Ident), << >>) >> }
FuncFiles(pkg) ==
    { File(pkg, pkg, Doc(SprintfPackage(pkg)),
           << FuncDecl(n, d, b), UndocumentedFunc >>) :
        n \in FuncNames, d \in FuncDocs, b \in FuncBodies }

InitFunc ==
    /\ pkgName \in { MyPkg, MainName }
    /\ \E f \in FuncFiles(pkgName) : files = <<f>>
    /\ Entered

SpecFunc == InitFunc /\ [][Next]_vars

\* Conditionals: every pair of operands, inside every kind of function.
Operands ==
    { BasicLit("INT"), BasicLit("STRING"), Ident, CallExpr,
      ParenExpr(BasicLit("INT")), UnaryExpr(BasicLit("INT")),
      BinaryExpr(BasicLit("INT"), Ident), BinaryExpr(Ident, BasicLit("STRING")) }
Conds ==
    { BinaryExpr(x, y) : x \in Operands, y \in Operands }
    \cup { Ident, CallExpr, UnaryExpr(Ident),
           ParenExpr(BinaryExpr(Ident, BasicLit("INT"))) }
InnerStmts ==
    { << >>,
      << IfStmt(BinaryExpr(BasicLit("INT"), BasicLit("INT")), << >>) >>,
      << ExprStmt, IfStmt(BinaryExpr(CallExpr, BasicLit("STRING")), << >>) >> }
IfFiles(pkg) ==
    { File(pkg, pkg, Doc(SprintfPackage(pkg)),
           << FuncDecl(n, Doc(n), << IfStmt(c, in) >>) >>) :
        n \in { <<70>>, InitName, MainName }, c \in Conds, in \in InnerStmts }

InitIf ==
    /\ pkgName \in { MyPkg, MainName }
    /\ \E f \in IfFiles(pkgName) : files = <<f>>
    /\ Entered

SpecIf == InitIf /\ [][Next]_vars

\* Constant and type declarations.  The names declared in one declaration
\* differ, as in every package that type-checks.
DeclNames == { <<64 + k>> : k \in 1..(MaxNames + 1) }        \* A, B, C, ...
NameLists ==
    { ns \in SeqsUpTo(DeclNames, MaxNames) :
        \A a, b \in DOMAIN ns : a # b => ns[a] # ns[b] }
SpecDocs(name) == { NilDoc, Doc(<<32>> \o name \o <<32, 120>>), Doc(<<120>> \o name) }
TypeSpecs == { TypeSpec(n, d) : n \in DeclNames, d \in SpecDocs(<<65>>) }
VarSpecs == { ValueSpec(<<n>>, NilDoc) : n \in DeclNames }
SpecNames(sp) == IF sp.type = "ValueSpec" THEN { sp.Names[k] : k \in DOMAIN sp.Names } ELSE { sp.Name }
DistinctNames(specs) ==
    \A a, b \in DOMAIN specs : a # b => SpecNames(specs[a]) \cap SpecNames(specs[b]) = {}
\* the name lists of the specifications of one constant declaration
NameListSeqs ==
    { s \in SeqsUpTo(NameLists, MaxSpecs) :
        \A a, b \in DOMAIN s : a # b =>
            { s[a][k] : k \in DOMAIN s[a] } \cap { s[b][k] : k \in DOMAIN s[b] } = {} }
ValueSpecSeqs ==
    UNION { { [k \in DOMAIN nl |-> ValueSpec(nl[k], ds[k])] :
                ds \in [DOMAIN nl -> SpecDocs(<<65>>)] }
          : nl \in NameListSeqs }
GenDecls ==
    { GenDecl("CONST", lp, d, sps) :
        lp \in BOOLEAN, d \in SpecDocs(<<65>>), sps \in ValueSpecSeqs }
    \cup
    { GenDecl("TYPE", lp, d, sps) :
        lp \in BOOLEAN, d \in SpecDocs(<<65>>),
        sps \in { s \in SeqsUpTo(TypeSpecs, MaxSpecs) : DistinctNames(s) } }
    \cup
    { GenDecl("VAR", lp, d, sps) :
        lp \in BOOLEAN, d \in SpecDocs(<<65>>),
        sps \in { s \in SeqsUpTo(VarSpecs, MaxSpecs) : DistinctNames(s) } }
\* without parentheses a declaration holds one specification
WellFormed(g) ==
    ~g.Lparen => Len(g.Specs) = 1
DeclFiles(pkg) ==
    { File(pkg, pkg, Doc(SprintfPackage(pkg)), << g >>) : g \in { d \in GenDecls : WellFormed(d) } }

InitDecl ==
    /\ pkgName = MyPkg
    /\ \E f \in DeclFiles(pkgName) : files = <<f>>
    /\ Entered

SpecDecl == InitDecl /\ [][Next]_vars

\* validatePackageName called on its own.
\* the characters a B _ - 1 and, outside ASCII, U+00C9 (capital) and U+00E9
Identifiers == Strs({97, 66, 95, 45, 49, 201, 233}, MaxIdentLen)

InitValidate ==
    /\ pkgName \in Identifiers
    /\ files = << >>
    /\ packageWithSameNameFile = EmptyMap
    /\ msg = NoMsg
    /\ idx = 1
    /\ diags = << >>
    /\ pc = "call"

ValidateName ==
    /\ pc = "call"
    /\ msg' = validatePackageName(pkgName)
    /\ pc' = "return"
    /\ UNCHANGED <<pkgName, files, packageWithSameNameFile, idx, diags>>

NextName == ValidateName

SpecName == InitValidate /\ [][NextName]_vars

----------------------------------------------------------------------------
(* doculint() as a function of its input: the diagnostics of a whole run. *)

RECURSIVE FilesLoop(_, _, _, _)
FilesLoop(pkg, fs, k, m) ==
    IF k > Len(fs)
    THEN FinalReports(m, DOMAIN m)
    ELSE LET r == PackageDocCheck(fs[k], pkg, m)
         IN  r.diags \o InspectFile(fs[k], pkg) \o FilesLoop(pkg, fs, k + 1, r.m)

doculint(pkg, fs) ==
    (IF validatePackageName(pkg) # NoMsg
     THEN << Diag(NoPos, validatePackageName(pkg)) >>
     ELSE << >>)
    \o FilesLoop(pkg, fs, 1, EmptyMap)

----------------------------------------------------------------------------
(* Vocabulary of the properties.                                           *)

FmtSeparator == "package \"%s\" should not contain - or _ in name"
FmtCasing == "package \"%s\" should be all lowercase"
FmtPkgNoComment == "package \"%s\" has no comment associated with it in \"%s.go\""
FmtPkgPrefix == "comment for package \"%s\" should begin with \"%s\""
FmtNoFile == "package \"%s\" has no file with the same name containing package comment"
FmtFuncNoComment == "function \"%s\" has no comment associated with it"
FmtFuncPrefix == "comment for function \"%s\" should begin with \"%s\""
FmtLiteral == "literal found in conditional"
FmtConstsSeparated == "constants \"%s\" should be separated and each have a comment associated with them"

Done == pc = "done"

\* the diagnostics reported so far with the given format
WithFmt(format) == SelectSeq(diags, LAMBDA d : d.msg.fmt = format)
\* the diagnostics reported so far at the given position
DiagsAt(pos) == SelectSeq(diags, LAMBDA d : d.pos = pos)

\* the files visited so far
Visited == { files[k] : k \in 1..(IF pc = "done" THEN Len(files) ELSE idx - 1) }

NonEntry == pkgName # MainName

\* s without its leading and trailing white space
Trimmed(s) ==
    LET Black == { k \in 1..Len(s) : ~IsSpace(s[k]) }
    IN  IF Black = {} THEN << >>
        ELSE SubSeq(s, CHOOSE k \in Black : \A j \in Black : k <= j,
                       CHOOSE k \in Black : \A j \in Black : k >= j)

\* the first white-space separated token of s
FirstToken(s) ==
    LET t == Trimmed(s)
        Stops == { k \in 1..Len(t) : IsSpace(t[k]) }
    IN  IF Stops = {} THEN t
        ELSE SubSeq(t, 1, (CHOOSE k \in Stops : \A j \in Stops : k <= j) - 1)

\* name is an initial segment of s
StartsWith(s, name) ==
    /\ Len(name) <= Len(s)
    /\ \A k \in 1..Len(name) : s[k] = name[k]

----------------------------------------------------------------------------
(* Package-level properties, checked under Spec.                           *)

\* C1: after a full run over a non-entry unit in which no file's simple name
\* equals the package identifier, exactly one "has no file with the same
\* name" violation has been reported for the package.
C1_OneNoFileViolation ==
    (Done /\ NonEntry /\ \A k \in DOMAIN files : files[k].fname # pkgName)
        => Len(SelectSeq(WithFmt(FmtNoFile), LAMBDA d : d.msg.args = <<pkgName>>)) = 1

\* C2: each unit-scoped violation kind (package naming, package comment
\* missing, package comment wrong prefix, no file with matching name) is
\* reported at most once for the package.
C2_UnitScopedAtMostOnce ==
    /\ Len(WithFmt(FmtSeparator)) + Len(WithFmt(FmtCasing)) <= 1
    /\ Len(WithFmt(FmtPkgNoComment)) <= 1
    /\ Len(WithFmt(FmtPkgPrefix)) <= 1
    /\ Len(WithFmt(FmtNoFile)) <= 1

\* C3: in a non-entry unit where one file is named as the package and has no
\* package comment and every other file has another simple name, the run
\* reports exactly one "has no comment associated with it" violation for the
\* package and no "has no file with the same name" violation.
C3_NamedFileUndocumented ==
    (/\ Done
     /\ NonEntry
     /\ \E k \in DOMAIN files :
            /\ files[k].fname = pkgName
            /\ files[k].Doc.nil
            /\ \A j \in DOMAIN files : j # k => files[j].fname # pkgName)
        => /\ Len(WithFmt(FmtPkgNoComment)) = 1
           /\ Len(WithFmt(FmtNoFile)) = 0

\* C8: in the entry package no package-doc violation of any kind is reported,
\* in the per-file passes or at the end, and the map stays empty.
C8_EntryPackageExempt ==
    pkgName = MainName
        => /\ packageWithSameNameFile = EmptyMap
           /\ WithFmt(FmtPkgNoComment) = << >>
           /\ WithFmt(FmtPkgPrefix) = << >>
           /\ WithFmt(FmtNoFile) = << >>

\* A finished run over an entry package with several files, one of them
\* without a package comment and one with a comment of the wrong prefix.
C8_Witness ==
    /\ Done
    /\ pkgName = MainName
    /\ Len(files) >= 2
    /\ \E k \in DOMAIN files : files[k].Doc.nil
    /\ \E k \in DOMAIN files :
           ~files[k].Doc.nil /\ ~StartsWith(Trimmed(files[k].Doc.text), SprintfPackage(pkgName))

\* C9: the flag of a package is true only if a file already visited has a
\* simple name equal to the package identifier and carries a package comment.
C9_FlagOnlyForNamedDocFile ==
    \A p \in DOMAIN packageWithSameNameFile :
        packageWithSameNameFile[p]
            => \E f \in Visited : f.fname = p /\ ~f.Doc.nil

\* the multiset of the elements of a sequence
BagOf(seq) ==
    [ d \in { seq[k] : k \in DOMAIN seq } |-> Cardinality({ k \in DOMAIN seq : seq[k] = d }) ]

\* the orders in which n files can be given
Orders(n) == { p \in [1..n -> 1..n] : \A a, b \in 1..n : a # b => p[a] # p[b] }

\* C10: the multiset of the diagnostics of a complete run is the same for
\* every order in which the files of the unit are given.
C10_OrderIndependent ==
    Done => \A p \in Orders(Len(files)) :
                BagOf(doculint(pkgName, [k \in DOMAIN files |-> files[p[k]]])) = BagOf(diags)

\* A finished run over two files that both report, the first one without a
\* package comment and the second one with a proper one.
C10_Witness ==
    /\ Done
    /\ NonEntry
    /\ Len(files) >= 2
    /\ files[1].Doc.nil
    /\ ~files[2].Doc.nil
    /\ files[1].Decls # files[2].Decls
    /\ Len(diags) >= 2

----------------------------------------------------------------------------
(* Properties of the rules of the tree walk.                               *)

\* every node below the list of nodes found at path, with its own path
RECURSIVE NodesIn(_, _)
NodesIn(path, nodes) ==
    UNION { LET n == nodes[k]
                p == path \o <<k>>
            IN  { [path |-> p, node |-> n] }
                \cup (IF n.type = "FuncDecl" THEN NodesIn(p, n.Body)
                      ELSE IF n.type = "IfStmt" THEN NodesIn(p \o <<2>>, n.Body)
                      ELSE {})
          : k \in DOMAIN nodes }

\* the nodes of the unit of the given type, each with its file and path
NodesOfType(type) ==
    UNION { { [file |-> files[i].fname, path |-> r.path, node |-> r.node] :
                r \in { q \in NodesIn(<< >>, files[i].Decls) : q.node.type = type } }
          : i \in DOMAIN files }

\* the function is exempt from the comment rule
Exempt(fn) == (pkgName = MainName /\ fn.Name = MainName) \/ fn.Name = InitName

FuncNoComment(r) ==
    << Diag(Pos(r.file, r.path), [fmt |-> FmtFuncNoComment, args |-> <<r.node.Name>>]) >>
FuncWrongPrefix(r) ==
    << Diag(Pos(r.file, r.path), [fmt |-> FmtFuncPrefix, args |-> <<r.node.Name, r.node.Name>>]) >>

\* C4, as stated: for every function declaration that is not exempt, no doc
\* comment gives exactly one "no comment" violation, a doc comment whose
\* trimmed text starts with another token than the function name gives
\* exactly one "should begin with" violation, and a doc comment whose first
\* token is the function name gives none.
C4_ByFirstToken ==
    Done => \A r \in NodesOfType("FuncDecl") :
                ~Exempt(r.node) =>
                    DiagsAt(Pos(r.file, r.path)) =
                        IF r.node.Doc.nil THEN FuncNoComment(r)
                        ELSE IF FirstToken(r.node.Doc.text) # r.node.Name THEN FuncWrongPrefix(r)
                        ELSE << >>

\* C4, amended: for every function declaration that is not exempt, no doc
\* comment gives exactly one "no comment" violation, a doc comment whose
\* trimmed text does not have the function name as an initial segment gives
\* exactly one "should begin with" violation, and a doc comment whose trimmed
\* text has the function name as an initial segment gives none.
C4_ByPrefix ==
    Done => \A r \in NodesOfType("FuncDecl") :
                ~Exempt(r.node) =>
                    DiagsAt(Pos(r.file, r.path)) =
                        IF r.node.Doc.nil THEN FuncNoComment(r)
                        ELSE IF ~StartsWith(Trimmed(r.node.Doc.text), r.node.Name) THEN FuncWrongPrefix(r)
                        ELSE << >>

\* A finished run with a function that is not exempt and whose comment,
\* given with white space around it, starts with a longer token than its
\* name, and one whose comment starts with another name.
C4_Witness ==
    /\ Done
    /\ \E r \in NodesOfType("FuncDecl") :
           /\ ~Exempt(r.node)
           /\ ~r.node.Doc.nil
           /\ r.node.Doc.text # Trimmed(r.node.Doc.text)
           /\ FirstToken(r.node.Doc.text) # r.node.Name
           /\ StartsWith(Trimmed(r.node.Doc.text), r.node.Name)
           /\ DiagsAt(Pos(r.file, r.path)) = << >>
    /\ \E r \in NodesOfType("FuncDecl") :
           /\ ~Exempt(r.node)
           /\ r.node.Doc.nil
           /\ DiagsAt(Pos(r.file, r.path)) = FuncNoComment(r)

\* the capital letters of Latin-1: A..Z and U+00C0..U+00DE without U+00D7
Capitals == (65..90) \cup (192..214) \cup (216..222)

\* C5: validatePackageName returns the separator violation for every
\* identifier with a '-' or '_' (also when it has upper-case letters), else
\* the casing violation when the identifier has an upper-case letter, else
\* nothing.
C5_ValidateNameRuleOrder ==
    pc = "return" =>
        LET hasSeparator == \E k \in DOMAIN pkgName : pkgName[k] \in {45, 95}
            hasUpper == \E k \in DOMAIN pkgName : pkgName[k] \in Capitals
        IN  msg = IF hasSeparator THEN [fmt |-> FmtSeparator, args |-> <<pkgName>>]
                  ELSE IF hasUpper THEN [fmt |-> FmtCasing, args |-> <<pkgName>>]
                  ELSE [fmt |-> "", args |-> << >>]

\* validatePackageName has returned for an identifier with both a separator
\* and an upper-case letter.
C5_Witness ==
    /\ pc = "return"
    /\ \E k \in DOMAIN pkgName : pkgName[k] = 95
    /\ \E k \in DOMAIN pkgName : pkgName[k] \in Capitals
    /\ msg.fmt = FmtSeparator

LiteralAt(file, path) ==
    << Diag(Pos(file, path), [fmt |-> FmtLiteral, args |-> << >>]) >>

\* the conditionals of the unit whose condition is a binary expression
BinaryIfs == { r \in NodesOfType("IfStmt") : r.node.Cond.type = "BinaryExpr" }

\* C6: for every conditional whose condition is a binary expression, each of
\* the two direct operands that is a bare literal gets exactly one "literal
\* found in conditional" violation at its position, every other operand gets
\* none, and no such violation is reported anywhere else.
C6_LiteralOperands ==
    Done =>
        /\ \A r \in BinaryIfs :
               /\ DiagsAt(Pos(r.file, r.path \o <<1, 1>>)) =
                      IF r.node.Cond.X.type = "BasicLit"
                      THEN LiteralAt(r.file, r.path \o <<1, 1>>) ELSE << >>
               /\ DiagsAt(Pos(r.file, r.path \o <<1, 2>>)) =
                      IF r.node.Cond.Y.type = "BasicLit"
                      THEN LiteralAt(r.file, r.path \o <<1, 2>>) ELSE << >>
        /\ \A k \in DOMAIN diags :
               diags[k].msg.fmt = FmtLiteral =>
                   \E r \in BinaryIfs :
                       \/ diags[k].pos = Pos(r.file, r.path \o <<1, 1>>)
                       \/ diags[k].pos = Pos(r.file, r.path \o <<1, 2>>)

\* A finished run with a conditional that compares a bare literal with an
\* expression that has a literal inside, nested in an exempt function.
C6_Witness ==
    /\ Done
    /\ \E r \in BinaryIfs :
           /\ r.node.Cond.X.type = "BasicLit"
           /\ r.node.Cond.Y.type \in {"ParenExpr", "UnaryExpr", "BinaryExpr"}
           /\ r.node.Body # << >>
           /\ Len(SelectSeq(diags, LAMBDA d : d.pos.file = r.file /\ d.msg.fmt = FmtLiteral)) >= 2
    /\ \E r \in NodesOfType("FuncDecl") : Exempt(r.node)

\* the names of a list written with ", " between them
RECURSIVE SplitList(_)
SplitList(s) ==
    LET Commas == { k \in 1..Len(s) : s[k] = 44 }
    IN  IF Commas = {} THEN << s >>
        ELSE LET c == CHOOSE k \in Commas : \A j \in Commas : k <= j
             IN  << SubSeq(s, 1, c - 1) >> \o SplitList(SubSeq(s, c + 2, Len(s)))

\* the specifications of the constant declarations of the unit that declare
\* several names, each with its declaration, file and path
JointSpecs ==
    UNION { { [file |-> r.file, path |-> r.path \o <<i>>, decl |-> r.node, spec |-> r.node.Specs[i]] :
                i \in { j \in DOMAIN r.node.Specs : Len(r.node.Specs[j].Names) > 1 } }
          : r \in { q \in NodesOfType("GenDecl") : q.node.Tok = "CONST" } }

\* C7: for every specification of a constant declaration that declares
\* several names, exactly one "should be separated" violation listing all the
\* names is reported and no other violation is reported for it, with or
\* without doc comments on the specification and on the declaration.
C7_JointNamesOneViolation ==
    Done => \A r \in JointSpecs :
                LET at == DiagsAt(Pos(r.file, r.path))
                IN  /\ Len(at) = 1
                    /\ at[1].msg.fmt = FmtConstsSeparated
                    /\ Len(at[1].msg.args) = 1
                    /\ SplitList(at[1].msg.args[1]) = r.spec.Names

\* A finished run over a block with a specification of several names, in one
\* case without any doc comment and in another with doc comments on both the
\* block and the specification.
C7_Witness ==
    /\ Done
    /\ \E r \in JointSpecs :
           /\ r.decl.Lparen
           /\ r.decl.Doc.nil = r.spec.Doc.nil
           /\ Len(r.decl.Specs) > 1
           /\ Len(DiagsAt(Pos(r.file, r.path))) = 1

====
